---- MODULE Spec2Model ----
(***************************************************************************)
(* Model of paddle/operators/prior_box_op.h: ExpandAspectRatios,           *)
(* ClipFunctor and PriorBoxOpKernel::Compute.                              *)
(*                                                                         *)
(* Number representations.                                                 *)
(*  - An aspect ratio is a std::vector<float> element. It is carried as an *)
(*    IEEE-754 binary32 value [m |-> mantissa, e |-> exponent], value      *)
(*    m * 2^e with 2^23 <= m < 2^24, so that the 1e-6 tolerance tests and  *)
(*    the rounding of 1/ar are those of the code.                          *)
(*  - Pixel quantities and box coordinates (step_width, center_x,          *)
(*    box_width, the entries of boxes) are carried in binary fixed point   *)
(*    with FracBits fractional bits, every operation rounding down.        *)
(*  - A buffer element is a record [t |-> "num" | "nan" | "uninit", v]:    *)
(*    a number, a NaN, or memory that mutable_data has not initialised.    *)
(*  - int attributes keep their 32 bits.                                   *)
(***************************************************************************)
EXTENDS Integers, Sequences, FiniteSets, TLC

Pow2(n) == 2 ^ n

(***************************************************************************)
(* binary32 values                                                         *)
(***************************************************************************)
MantBits == 24
MantLo == Pow2(MantBits - 1)
MantHi == Pow2(MantBits)

F32(mant, ex) == [m |-> mant, e |-> ex]

FOne == F32(MantLo, 1 - MantBits)

\* a < b for positive binary32 values
FLess(a, b) == a.e < b.e \/ (a.e = b.e /\ a.m < b.m)

\* constexpr float eps = 1e-6: the binary32 nearest to 1e-6 is
\* 8796093 * 2^-43 (0x358637BD).
EpsMant == 8796093
EpsExp == 0 - 43

\* |a - b| * 2^-EpsExp < bound, for binary32 a, b of exponent >= -40.
\* Two such values whose exponents differ by 2 or more are more than
\* 2^-18 apart; otherwise the difference is a multiple of 2^lo.e that the
\* float subtraction returns exactly whenever it is below 2^24 units.
FAbsDiffBelow(a, b, bound) ==
  LET hi == IF FLess(a, b) THEN b ELSE a
      lo == IF FLess(a, b) THEN a ELSE b
      de == hi.e - lo.e
      d  == hi.m * Pow2(de) - lo.m
      sh == lo.e - EpsExp
  IN  IF de >= 2 THEN FALSE
      ELSE IF d = 0 THEN TRUE
      ELSE IF sh > MantBits THEN FALSE
      ELSE IF sh >= 0 THEN d <= (bound - 1) \div Pow2(sh)
      ELSE (d \div Pow2(0 - sh)) < bound

\* fabs(ar - output_aspect_ratior[j]) < eps   (float arithmetic)
FNear(a, b) == FAbsDiffBelow(a, b, EpsMant)

\* NearOne with the tolerance doubled
NearOneWide(ar) == FAbsDiffBelow(ar, FOne, 2 * EpsMant)

\* fabs(ar - 1.) < 1e-6   (double arithmetic: the double 1e-6 lies strictly
\* between EpsMant * 2^-43 and the next multiple of 2^-43)
NearOne(ar) == FAbsDiffBelow(ar, FOne, EpsMant + 1)

\* long division: n more quotient bits of (r * 2^n) / d
RECURSIVE DivBits(_, _, _, _)
DivBits(q, r, d, n) ==
  IF n = 0 THEN <<q, r>>
  ELSE IF 2 * r >= d THEN DivBits(2 * q + 1, 2 * r - d, d, n - 1)
       ELSE DivBits(2 * q, 2 * r, d, n - 1)

\* 1. / ar, narrowed to float by push_back: round to nearest, ties to even.
\* (The intermediate double carries 53 bits and never sits on a binary32
\* tie that the exact quotient misses, so the two roundings agree.)
FRecip(ar) ==
  IF ar.m = MantLo THEN F32(MantLo, 2 - 2 * MantBits - ar.e)
  ELSE LET qr == DivBits(0, MantLo, ar.m, MantBits)
           q  == qr[1]
           r  == qr[2]
           up == 2 * r > ar.m \/ (2 * r = ar.m /\ q % 2 = 1)
           mq == IF up THEN q + 1 ELSE q
       IN  IF mq = MantHi THEN F32(MantLo, 2 - 2 * MantBits - ar.e)
           ELSE F32(mq, 1 - 2 * MantBits - ar.e)

(***************************************************************************)
(* ExpandAspectRatios                                                      *)
(***************************************************************************)
\* ExpandFrom with the duplicate test made against the input ratios already
\* scanned (and the leading 1) instead of the output accumulated so far
RECURSIVE ExpandFromInputDedup(_, _, _, _)
ExpandFromInputDedup(input_aspect_ratior, flp, i, output_aspect_ratior) ==
  IF i > Len(input_aspect_ratior) THEN output_aspect_ratior
  ELSE LET ar == input_aspect_ratior[i]
           already_exist ==
             \/ FNear(ar, output_aspect_ratior[1])
             \/ \E j \in 1..(i - 1) : FNear(ar, input_aspect_ratior[j])
       IN  ExpandFromInputDedup(input_aspect_ratior, flp, i + 1,
             IF already_exist THEN output_aspect_ratior
             ELSE IF flp THEN output_aspect_ratior \o <<ar, FRecip(ar)>>
                  ELSE Append(output_aspect_ratior, ar))

RECURSIVE ExpandFrom(_, _, _, _)
ExpandFrom(input_aspect_ratior, flp, i, output_aspect_ratior) ==
  IF i > Len(input_aspect_ratior) THEN output_aspect_ratior
  ELSE LET ar == input_aspect_ratior[i]
           already_exist ==
             \E j \in 1..Len(output_aspect_ratior) :
                FNear(ar, output_aspect_ratior[j])
       IN  ExpandFrom(input_aspect_ratior, flp, i + 1,
             IF already_exist THEN output_aspect_ratior
             ELSE IF flp THEN output_aspect_ratior \o <<ar, FRecip(ar)>>
                  ELSE Append(output_aspect_ratior, ar))

\* ExpandAspectRatios without the duplicate test: every input ratio is kept
ExpandKeepAll(input_aspect_ratior, flp) ==
  LET RECURSIVE Keep(_, _)
      Keep(i, out) ==
        IF i > Len(input_aspect_ratior) THEN out
        ELSE Keep(i + 1,
                  IF flp THEN out \o << input_aspect_ratior[i],
                                        FRecip(input_aspect_ratior[i]) >>
                  ELSE Append(out, input_aspect_ratior[i]))
  IN  Keep(1, <<FOne>>)

ExpandAspectRatios(input_aspect_ratior, flp) ==
  ExpandFrom(input_aspect_ratior, flp, 1, <<FOne>>)

(***************************************************************************)
(* Fixed point and int arithmetic                                          *)
(***************************************************************************)
FracBits == 12
One == Pow2(FracBits)

Num(v) == [t |-> "num", v |-> v]
NaN == [t |-> "nan", v |-> 0]
Uninit == [t |-> "uninit", v |-> 0]

\* floor(a * b / One) for fixed-point a, b >= 0
MulFx(a, b) == a * (b \div One) + (a * (b % One)) \div One

MaxInt32 == 2147483647
Half == Pow2(16)

Abs(n) == IF n < 0 THEN 0 - n ELSE n

\* the int product a * b leaves the range of int
Overflows(a, b) == a # 0 /\ b # 0 /\ Abs(b) > MaxInt32 \div Abs(a)

\* |a| * |b| mod 2^32 as <<high 16 bits, low 16 bits>>
MulLimbs(a, b) ==
  LET a1 == a \div Half   a0 == a % Half
      b1 == b \div Half   b0 == b % Half
      p1 == a0 * (b0 \div 256)
      p0 == a0 * (b0 % 256)
      t  == ((p1 % 256) * 256) + p0
      c  == t \div Half + p1 \div 256
  IN  << (c + ((a1 * b0) % Half) + ((a0 * b1) % Half)) % Half, t % Half >>

\* min_size * max_size as the two's-complement int multiplication gives it
MulInt32(a, b) ==
  LET u   == MulLimbs(Abs(a), Abs(b))
      neg == (a < 0) # (b < 0)
      lo  == IF neg THEN (Half - u[2]) % Half ELSE u[2]
      hi  == IF neg THEN (2 * Half - 1 - u[1] + (IF u[2] = 0 THEN 1 ELSE 0)) % Half
             ELSE u[1]
  IN  IF hi >= Half \div 2 THEN (hi - Half) * Half + lo ELSE hi * Half + lo

\* floor(sqrt(n)), one result bit at a time from bit i down
RECURSIVE SqrtInt(_, _, _)
SqrtInt(n, r, i) ==
  IF i < 0 THEN r
  ELSE LET c == r + Pow2(i)
       IN  IF c <= n \div c THEN SqrtInt(n, c, i - 1) ELSE SqrtInt(n, r, i - 1)

\* k more result bits: r = floor(sqrt(n * 4^j)), rem = n * 4^j - r^2
RECURSIVE SqrtFrac(_, _, _)
SqrtFrac(r, rem, k) ==
  IF k = 0 THEN r
  ELSE IF rem >= r + 1 THEN SqrtFrac(2 * r + 1, 4 * (rem - r) - 1, k - 1)
       ELSE SqrtFrac(2 * r, 4 * rem, k - 1)

\* floor(sqrt(n * 4^j)) for n >= 0
SqrtScaled(n, j) ==
  LET r0 == SqrtInt(n, 0, 15) IN SqrtFrac(r0, n - r0 * r0, j)

\* sqrt(int): NaN for a negative argument
SqrtOfInt(n) == IF n < 0 THEN NaN ELSE Num(SqrtScaled(n, FracBits))

\* sqrt(ar) for a binary32 ar = m * 2^e, in fixed point:
\* floor(sqrt(m * 2^(e + 2 * FracBits)))
SqrtOfRatio(ar) ==
  LET k == ar.e + 2 * FracBits
  IN  IF k >= 0
      THEN IF k % 2 = 0 THEN SqrtScaled(ar.m, k \div 2)
           ELSE SqrtScaled(2 * ar.m, (k - 1) \div 2)
      ELSE SqrtScaled(ar.m \div Pow2(0 - k), 0)

\* floor(n * One / d) for fixed-point d > 0 and an int n >= 0
DivIntByFx(n, d) ==
  LET a == n * One IN (a \div d) * One + ((a % d) * One) \div d

(***************************************************************************)
(* ClipFunctor: std::min<T>(std::max<T>(in, 0.), 1.). std::max(a, b) is    *)
(* (a < b) ? b : a and std::min(a, b) is (b < a) ? b : a, so a NaN passes  *)
(* through both. An indeterminate element stays indeterminate.             *)
(***************************************************************************)
ClipFunctor(in) ==
  IF in.t = "num"
  THEN LET mx == IF in.v < 0 THEN 0 ELSE in.v
       IN  Num(IF One < mx THEN One ELSE mx)
  ELSE in

(***************************************************************************)
(* State of one call of PriorBoxOpKernel::Compute                          *)
(***************************************************************************)
VARIABLES
  \* attributes and tensor dimensions read from the ExecutionContext
  min_sizes, max_sizes, input_aspect_ratio, variances, flip, clip,
  step_w, step_h, offset, img_width, img_height, layer_width, layer_height,
  \* the environment of the call: the int that lies behind the end of
  \* max_sizes, and whether the build traps on signed overflow
  stray, trapv,
  \* locals of Compute
  pc, aspect_ratios, step_width, step_height, num_priors, h, w,
  \* the output tensors Boxes (one element per (h, w, idx), holding its four
  \* coordinates) and Variances
  boxes, e_vars,
  \* history: every e_boxes(h, w, idx, .) store made so far, the cells whose
  \* body has run, the buffer as generation left it, and the undefined
  \* behaviour met (a read behind max_sizes, a store behind the buffer)
  writes, cells_done, generated, oob_read, heap_overrun

attrs == <<min_sizes, max_sizes, input_aspect_ratio, variances, flip, clip,
           step_w, step_h, offset, img_width, img_height, layer_width,
           layer_height, stray, trapv>>
vars == <<attrs, pc, aspect_ratios, step_width, step_height, num_priors, h, w,
          boxes, e_vars, writes, cells_done, generated, oob_read,
          heap_overrun>>

(***************************************************************************)
(* Bounded inputs                                                          *)
(***************************************************************************)
MaxRatios == 2
MaxCells == 2

BSeq(S, n) == UNION {[1..k -> S] : k \in 0..n}

\* Ratios for the calls that probe the 1e-6 tolerance: 1 + 8 ulp (within
\* 1e-6 of 1), 1 + 9 ulp (just outside), 1 - 17 * 2^-24 (within 1e-6 of the
\* reciprocal of 1 + 9 ulp), 2, 2 + 9 ulp and 3
RatioVals ==
  { F32(MantLo + 8, 1 - MantBits), F32(MantLo + 9, 1 - MantBits),
    F32(MantHi - 17, 0 - MantBits), F32(MantLo, 2 - MantBits),
    F32(MantLo + 9, 2 - MantBits), F32(3 * Pow2(MantBits - 2), 2 - MantBits) }

\* Ratios for the other calls: 2 and 3
CommonRatios ==
  { F32(MantLo, 2 - MantBits), F32(3 * Pow2(MantBits - 2), 2 - MantBits) }

\* <<min_sizes, max_sizes>> with max_sizes empty or index-aligned
AlignedSizeLists ==
  { << <<30>>, <<>> >>, << <<30, 60>>, <<>> >>, << <<30>>, <<60>> >>,
    << <<30, 60>>, <<60, 111>> >> }

\* the same, plus two pairs whose int product overflows (46341^2 wraps to a
\* negative int, 65536 * 65537 to 65536), and max_sizes shorter and longer
\* than min_sizes
SizeLists ==
  AlignedSizeLists \cup
  { << <<46341>>, <<46341>> >>, << <<65536>>, <<65537>> >>,
    << <<30, 60>>, <<60>> >>, << <<30>>, <<60, 111>> >> }

StrayInts == { 0 - 7, 46341 }
VarianceLists == { <<0 - One, One \div 10, 2 * One, One \div 5>> }

\* [image width, image height, step_w, step_h]
Geometries ==
  { <<300, 300, 0, 0>>, <<301, 200, 0, 8 * One>>,
    <<301, 200, 8 * One, 0>>, <<301, 200, 8 * One, 16 * One>> }

\* max_sizes[s] (s counted from 1): behind the end of the vector the read
\* returns whatever int lies there
MaxSizeAt(s) == IF s <= Len(max_sizes) THEN max_sizes[s] ELSE stray

\* Calls over the whole range of sizes, geometries and clip
GeneralCall ==
  /\ \E sz \in SizeLists : min_sizes = sz[1] /\ max_sizes = sz[2]
  /\ input_aspect_ratio \in BSeq(CommonRatios, MaxRatios)
  /\ clip \in BOOLEAN
  /\ \E g \in Geometries :
        /\ img_width = g[1] /\ img_height = g[2]
        /\ step_w = g[3] /\ step_h = g[4]

\* Calls over the whole range of ratio lists
ToleranceCall ==
  /\ \E sz \in AlignedSizeLists : min_sizes = sz[1] /\ max_sizes = sz[2]
  /\ input_aspect_ratio \in BSeq(RatioVals, MaxRatios)
  /\ clip = FALSE
  /\ img_width = 300 /\ img_height = 300
  /\ step_w = 0 /\ step_h = 0

\* The state in which the cell loop of Compute has not started
Entry ==
  /\ variances \in VarianceLists
  /\ flip \in BOOLEAN
  /\ offset = One \div 2
  /\ layer_width \in 1..MaxCells
  /\ layer_height \in 1..MaxCells
  /\ layer_height * layer_width <= MaxCells
  /\ stray \in IF 0 < Len(max_sizes) /\ Len(max_sizes) < Len(min_sizes)
               THEN StrayInts ELSE {0}
  /\ trapv \in IF \E s \in 1..Len(min_sizes) :
                     Len(max_sizes) > 0 /\ Overflows(min_sizes[s], MaxSizeAt(s))
               THEN BOOLEAN ELSE {FALSE}
  /\ pc = "expand"
  /\ aspect_ratios = <<>>
  /\ step_width = 0 /\ step_height = 0
  /\ num_priors = 0
  /\ h = 0 /\ w = 0
  /\ boxes = <<>>
  /\ e_vars = <<>>
  /\ writes = <<>>
  /\ cells_done = {}
  /\ generated = <<>>
  /\ oob_read = FALSE
  /\ heap_overrun = FALSE

Init == (GeneralCall \/ ToleranceCall) /\ Entry

InitGeneral == GeneralCall /\ Entry

(***************************************************************************)
(* Compute, lines 70-71: the expanded ratios                               *)
(***************************************************************************)
Expand ==
  /\ pc = "expand"
  /\ aspect_ratios' = ExpandAspectRatios(input_aspect_ratio, flip)
  /\ pc' = "steps"
  /\ UNCHANGED <<attrs, step_width, step_height, num_priors, h, w, boxes,
                 e_vars, writes, cells_done, generated, oob_read,
                 heap_overrun>>

(***************************************************************************)
(* Compute, lines 83-90: step resolution                                   *)
(***************************************************************************)
\* static_cast<float>(img) / layer
FloatDiv(img, layer) == (img * One) \div layer

\* StepSizes deriving the steps only when both attributes are 0
StepSizesBothZero(sw, sh, iw, ih, lw, lh) ==
  IF sw = 0 /\ sh = 0 THEN <<FloatDiv(iw, lw), FloatDiv(ih, lh)>>
  ELSE <<sw, sh>>

StepSizes(sw, sh, iw, ih, lw, lh) ==
  IF sw = 0 \/ sh = 0 THEN <<FloatDiv(iw, lw), FloatDiv(ih, lh)>>
  ELSE <<sw, sh>>

ResolveSteps ==
  /\ pc = "steps"
  /\ LET st == StepSizes(step_w, step_h, img_width, img_height,
                         layer_width, layer_height)
     IN  step_width' = st[1] /\ step_height' = st[2]
  /\ pc' = "alloc"
  /\ UNCHANGED <<attrs, aspect_ratios, num_priors, h, w, boxes, e_vars,
                 writes, cells_done, generated, oob_read, heap_overrun>>

(***************************************************************************)
(* Compute, lines 92-100: num_priors and the output buffers. The extents   *)
(* of Boxes are those the operator's shape inference gives it,             *)
(* [layer_height, layer_width, num_priors, 4]; mutable_data initialises    *)
(* none of its elements.                                                   *)
(***************************************************************************)
\* NumPriors without the max_sizes term
NumPriorsNoMax(ars, mins, maxs) == Len(ars) * Len(mins)

NumPriors(ars, mins, maxs) ==
  Len(ars) * Len(mins) + (IF Len(maxs) > 0 THEN Len(maxs) ELSE 0)

Allocate ==
  /\ pc = "alloc"
  /\ num_priors' = NumPriors(aspect_ratios, min_sizes, max_sizes)
  /\ boxes' = [k \in 0..(layer_height * layer_width * num_priors' - 1) |->
                 <<Uninit, Uninit, Uninit, Uninit>>]
  /\ h' = 0 /\ w' = 0
  /\ pc' = "loop"
  /\ UNCHANGED <<attrs, aspect_ratios, step_width, step_height, e_vars, writes,
                 cells_done, generated, oob_read, heap_overrun>>

(***************************************************************************)
(* Compute, lines 101-157: the body of the cell loop for cell (hh, ww).    *)
(* A store is recorded as [h, w, idx, kind, s, r, bw, bh, box]: kind is    *)
(* "min" (first prior), "max" (second prior) or "ar" (rest of priors), s   *)
(* and r count from 1, bw and bh are box_width and box_height.             *)
(***************************************************************************)
CenterX(ww) == MulFx(ww * One + offset, step_width)
CenterY(hh) == MulFx(hh * One + offset, step_height)

\* (center +/- box / 2.) / img
Coord(center, box, sign, img) ==
  IF box.t = "num" THEN Num((2 * center + sign * box.v) \div (2 * img))
  ELSE NaN

BoxAt(hh, ww, box_width, box_height) ==
  << Coord(CenterX(ww), box_width, 0 - 1, img_width),
     Coord(CenterY(hh), box_height, 0 - 1, img_height),
     Coord(CenterX(ww), box_width, 1, img_width),
     Coord(CenterY(hh), box_height, 1, img_height) >>

Store(hh, ww, idx, kind, s, r, box_width, box_height) ==
  [h |-> hh, w |-> ww, idx |-> idx, kind |-> kind, s |-> s, r |-> r,
   bw |-> box_width, bh |-> box_height,
   box |-> BoxAt(hh, ww, box_width, box_height)]

\* lines 108-120: box_width = box_height = min_size
FirstPrior(hh, ww, s, idx) ==
  Store(hh, ww, idx, "min", s, 0, Num(min_sizes[s] * One),
        Num(min_sizes[s] * One))

\* lines 121-135: box_width = box_height = sqrt(min_size * max_size)
SecondPrior(hh, ww, s, idx) ==
  LET side == SqrtOfInt(MulInt32(min_sizes[s], MaxSizeAt(s)))
  IN  Store(hh, ww, idx, "max", s, 0, side, side)

\* RestOfPriors without the skip of the unit ratio
RECURSIVE RestOfPriorsNoSkip(_, _, _, _, _)
RestOfPriorsNoSkip(hh, ww, s, r, idx) ==
  IF r > Len(aspect_ratios) THEN <<>>
  ELSE LET ar == aspect_ratios[r]
       IN  << Store(hh, ww, idx, "ar", s, r,
                    Num(min_sizes[s] * SqrtOfRatio(ar)),
                    Num(DivIntByFx(min_sizes[s], SqrtOfRatio(ar)))) >>
           \o RestOfPriorsNoSkip(hh, ww, s, r + 1, idx + 1)

\* lines 138-154: the loop over aspect_ratios from index r on
RECURSIVE RestOfPriors(_, _, _, _, _)
RestOfPriors(hh, ww, s, r, idx) ==
  IF r > Len(aspect_ratios) THEN <<>>
  ELSE LET ar == aspect_ratios[r]
       IN  IF NearOne(ar) THEN RestOfPriors(hh, ww, s, r + 1, idx)
           ELSE << Store(hh, ww, idx, "ar", s, r,
                         Num(min_sizes[s] * SqrtOfRatio(ar)),
                         Num(DivIntByFx(min_sizes[s], SqrtOfRatio(ar)))) >>
                \o RestOfPriors(hh, ww, s, r + 1, idx + 1)

\* PriorsOfSize with the second prior stored after the rest of the priors
PriorsOfSizeMaxLast(hh, ww, s, idx) ==
  IF Len(max_sizes) > 0
  THEN IF trapv /\ Overflows(min_sizes[s], MaxSizeAt(s))
       THEN [ws |-> << FirstPrior(hh, ww, s, idx) >>, trap |-> TRUE]
       ELSE LET rest == RestOfPriors(hh, ww, s, 1, idx + 1)
            IN  [ws |-> << FirstPrior(hh, ww, s, idx) >> \o rest
                        \o << SecondPrior(hh, ww, s, idx + 1 + Len(rest)) >>,
                 trap |-> FALSE]
  ELSE [ws |-> << FirstPrior(hh, ww, s, idx) >>
               \o RestOfPriors(hh, ww, s, 1, idx + 1),
        trap |-> FALSE]

\* one pass of the loop over min_sizes; trap: the build trapped on the
\* overflow of min_size * max_size
PriorsOfSize(hh, ww, s, idx) ==
  IF Len(max_sizes) > 0
  THEN IF trapv /\ Overflows(min_sizes[s], MaxSizeAt(s))
       THEN [ws |-> << FirstPrior(hh, ww, s, idx) >>, trap |-> TRUE]
       ELSE [ws |-> << FirstPrior(hh, ww, s, idx),
                       SecondPrior(hh, ww, s, idx + 1) >>
                    \o RestOfPriors(hh, ww, s, 1, idx + 2),
             trap |-> FALSE]
  ELSE [ws |-> << FirstPrior(hh, ww, s, idx) >>
               \o RestOfPriors(hh, ww, s, 1, idx + 1),
        trap |-> FALSE]

RECURSIVE CellFrom(_, _, _, _)
CellFrom(hh, ww, s, idx) ==
  IF s > Len(min_sizes) THEN [ws |-> <<>>, trap |-> FALSE]
  ELSE LET p == PriorsOfSize(hh, ww, s, idx)
       IN  IF p.trap THEN p
           ELSE LET rest == CellFrom(hh, ww, s + 1, idx + Len(p.ws))
                IN  [ws |-> p.ws \o rest.ws, trap |-> rest.trap]

\* int idx = 0; for (size_t s = 0; ...)
CellWrites(hh, ww) == CellFrom(hh, ww, 1, 0)

\* e_boxes(h, w, idx, .) is element (h * layer_width + w) * num_priors + idx
\* of the row-major tensor; the index is not checked against the extents.
Slot(hh, ww, idx) == (hh * layer_width + ww) * num_priors + idx

RECURSIVE StoreAll(_, _, _)
StoreAll(buf, ws, i) ==
  IF i > Len(ws) THEN buf
  ELSE LET k == Slot(ws[i].h, ws[i].w, ws[i].idx)
       IN  StoreAll(IF k \in DOMAIN buf THEN [buf EXCEPT ![k] = ws[i].box]
                    ELSE buf, ws, i + 1)

\* the effect of the body of cell (hh, ww)
RunCell(hh, ww) ==
  \E c \in {CellWrites(hh, ww)} :
      /\ boxes' = StoreAll(boxes, c.ws, 1)
      /\ writes' = writes \o c.ws
      /\ cells_done' = IF c.trap THEN cells_done
                        ELSE cells_done \cup {<<hh, ww>>}
      /\ oob_read' = (oob_read \/ \E i \in 1..Len(c.ws) :
                        c.ws[i].kind = "max" /\ c.ws[i].s > Len(max_sizes))
      /\ heap_overrun' = (heap_overrun \/ \E i \in 1..Len(c.ws) :
                        Slot(hh, ww, c.ws[i].idx) \notin DOMAIN boxes)
      /\ IF c.trap THEN pc' = "abort" /\ generated' = generated
         ELSE IF cells_done' = (0..(layer_height - 1)) \X (0..(layer_width - 1))
              THEN pc' = "clip" /\ generated' = boxes'
              ELSE pc' = "loop" /\ generated' = generated

\* for (h = 0; ...) for (w = 0; ...): the cells in h-major, w-minor order
Cell ==
  /\ pc = "loop"
  /\ RunCell(h, w)
  /\ IF w + 1 < layer_width THEN h' = h /\ w' = w + 1
     ELSE h' = h + 1 /\ w' = 0
  /\ UNCHANGED <<attrs, aspect_ratios, step_width, step_height, num_priors,
                 e_vars>>

(***************************************************************************)
(* Compute, lines 159-165: the clip transform over the whole buffer        *)
(***************************************************************************)
Clip ==
  /\ pc = "clip"
  /\ boxes' = IF clip
              THEN [k \in DOMAIN boxes |->
                      [c \in 1..4 |-> ClipFunctor(boxes[k][c])]]
              ELSE boxes
  /\ pc' = "vars"
  /\ UNCHANGED <<attrs, aspect_ratios, step_width, step_height, num_priors,
                 h, w, e_vars, writes, cells_done, generated, oob_read,
                 heap_overrun>>

(***************************************************************************)
(* Compute, lines 167-179: the variance rows                               *)
(***************************************************************************)
\* BroadcastVariances with the clip functor applied to the rows as well
BroadcastClipped(vs, box_num) ==
  [i \in 1..box_num |->
     [j \in 1..Len(vs) |-> IF clip THEN ClipFunctor(Num(vs[j])).v ELSE vs[j]]]

BroadcastVariances(vs, box_num) == [i \in 1..box_num |-> vs]

Broadcast ==
  /\ pc = "vars"
  /\ e_vars' = BroadcastVariances(variances,
                                  layer_height * layer_width * num_priors)
  /\ pc' = "done"
  /\ UNCHANGED <<attrs, aspect_ratios, step_width, step_height, num_priors,
                 h, w, boxes, writes, cells_done, generated, oob_read,
                 heap_overrun>>

Next == Expand \/ ResolveSteps \/ Allocate \/ Cell \/ Clip \/ Broadcast
Spec == Init /\ [][Next]_vars

(***************************************************************************)
(* The cell loop with its iterations taken in any order: the body of one   *)
(* cell that has not run yet runs next, whichever it is.                   *)
(***************************************************************************)
CellAnyOrder ==
  /\ pc = "loop"
  /\ \E hh \in 0..(layer_height - 1), ww \in 0..(layer_width - 1) :
        /\ <<hh, ww>> \notin cells_done
        /\ RunCell(hh, ww)
        /\ h' = hh /\ w' = ww
  /\ UNCHANGED <<attrs, aspect_ratios, step_width, step_height, num_priors,
                 e_vars>>

NextAnyOrder ==
  Expand \/ ResolveSteps \/ Allocate \/ CellAnyOrder \/ Clip \/ Broadcast
SpecAnyOrder == InitGeneral /\ [][NextAnyOrder]_vars

(***************************************************************************)
(* Vocabulary of the properties                                            *)
(***************************************************************************)
\* max_sizes is empty or index-aligned with min_sizes
Aligned == Len(max_sizes) = 0 \/ Len(max_sizes) = Len(min_sizes)

Range(f) == {f[i] : i \in DOMAIN f}

\* the stores of cell (hh, ww), in the order they were made
WritesOf(hh, ww) == SelectSeq(writes, LAMBDA x : x.h = hh /\ x.w = ww)

\* len(expanded_ratios) * len(min_sizes) + len(max_sizes)
PriorsPerCell ==
  Len(aspect_ratios) * Len(min_sizes) + Len(max_sizes)

Generated == pc \in {"clip", "vars", "done"}

(***************************************************************************)
(* C1. When max_sizes is empty or as long as min_sizes, the body of every  *)
(* cell makes exactly len(expanded_ratios) * len(min_sizes) +              *)
(* len(max_sizes) stores, at the prior indices 0 .. that number - 1, each  *)
(* once; generation leaves no element of the buffer unwritten; and when    *)
(* Compute returns, the number of variance rows equals the number of       *)
(* boxes stored.                                                           *)
(***************************************************************************)
C1_PriorCount ==
  Aligned =>
    /\ \A c \in cells_done :
         LET ws == WritesOf(c[1], c[2])
         IN  /\ Len(ws) = PriorsPerCell
             /\ {ws[i].idx : i \in 1..Len(ws)} = 0..(PriorsPerCell - 1)
             /\ num_priors = PriorsPerCell
    /\ Generated =>
         \A k \in DOMAIN generated, c \in 1..4 : generated[k][c].t # "uninit"
    /\ pc = "done" =>
         /\ Len(e_vars) = Len(writes)
         /\ Len(e_vars) = layer_height * layer_width * PriorsPerCell

\* a finished call with max_sizes, flipped ratios and the ratio 1 + 9 ulp,
\* whose reciprocal is the closest the expansion gets to 1
C1_Witness ==
  /\ pc = "done" /\ Aligned /\ Len(max_sizes) = 2 /\ flip
  /\ F32(MantLo + 9, 1 - MantBits) \in Range(aspect_ratios)
  /\ Cardinality(cells_done) = 2
  /\ Len(writes) = 2 * PriorsPerCell

(***************************************************************************)
(* C2. Within a cell the stores go to consecutive prior indices from 0, in *)
(* min-size-major order: for each s the ratio-1 box of min_sizes[s], then  *)
(* (iff max_sizes is non-empty) the max-size variant, then one box per     *)
(* non-unit entry of the expanded ratios in expansion order; and with      *)
(* max_sizes empty or aligned the buffer holds them in that order.         *)
(***************************************************************************)
Tag(kind, s, r) == [kind |-> kind, s |-> s, r |-> r]

RECURSIVE RatioTags(_, _)
RatioTags(s, r) ==
  IF r > Len(aspect_ratios) THEN <<>>
  ELSE (IF NearOne(aspect_ratios[r]) THEN <<>> ELSE <<Tag("ar", s, r)>>)
       \o RatioTags(s, r + 1)

RECURSIVE ExpectedTags(_)
ExpectedTags(s) ==
  IF s > Len(min_sizes) THEN <<>>
  ELSE <<Tag("min", s, 0)>>
       \o (IF Len(max_sizes) > 0 THEN <<Tag("max", s, 0)>> ELSE <<>>)
       \o RatioTags(s, 1) \o ExpectedTags(s + 1)

C2_Order ==
  \A c \in cells_done :
    LET ws == WritesOf(c[1], c[2])
    IN  /\ [i \in 1..Len(ws) |-> Tag(ws[i].kind, ws[i].s, ws[i].r)]
             = ExpectedTags(1)
        /\ \A i \in 1..Len(ws) : ws[i].idx = i - 1
        /\ (Len(min_sizes) = 2 /\ Len(max_sizes) = 0
              /\ Len(input_aspect_ratio) = 1 /\ ~flip
              /\ ~FNear(input_aspect_ratio[1], FOne))
           => [i \in 1..Len(ws) |-> Tag(ws[i].kind, ws[i].s, ws[i].r)]
                = << Tag("min", 1, 0), Tag("ar", 1, 2),
                     Tag("min", 2, 0), Tag("ar", 2, 2) >>
        /\ (Aligned /\ Generated) =>
             \A i \in 1..Len(ws) :
               generated[(c[1] * layer_width + c[2]) * PriorsPerCell + i - 1]
                 = ws[i].box

C2_Witness ==
  /\ pc = "done" /\ Len(min_sizes) = 2 /\ Len(max_sizes) = 2 /\ flip
  /\ Len(aspect_ratios) = 5
  /\ \E i \in 1..Len(writes) :
        writes[i].kind = "ar" /\ writes[i].s = 2 /\ writes[i].r = 5
           /\ writes[i].idx = 11 /\ writes[i].h + writes[i].w = 1

(***************************************************************************)
(* C3. The expanded list starts with 1.0; scanning the input in order, a   *)
(* ratio is appended iff nothing already in the output is within 1e-6 of   *)
(* it, with flip its reciprocal follows it immediately and unchecked, and  *)
(* a skipped ratio contributes nothing. [2, 3] with flip gives             *)
(* [1, 2, 1/2, 3, 1/3].                                                    *)
(***************************************************************************)
RECURSIVE StartOf(_), Kept(_)
\* the output position at which input ratio i is placed if it is kept
StartOf(i) ==
  IF i = 1 THEN 2
  ELSE StartOf(i - 1)
       + (IF Kept(i - 1) THEN (IF flip THEN 2 ELSE 1) ELSE 0)
\* nothing placed before that position is within 1e-6 of input ratio i
Kept(i) ==
  \A j \in 1..(StartOf(i) - 1) :
     j <= Len(aspect_ratios)
       /\ ~FNear(input_aspect_ratio[i], aspect_ratios[j])

C3_Expansion ==
  pc # "expand" =>
    /\ Len(aspect_ratios) = StartOf(Len(input_aspect_ratio) + 1) - 1
    /\ aspect_ratios[1] = F32(MantLo, 1 - MantBits)
    /\ \A i \in 1..Len(input_aspect_ratio) :
         Kept(i) =>
           /\ aspect_ratios[StartOf(i)] = input_aspect_ratio[i]
           /\ flip => aspect_ratios[StartOf(i) + 1]
                        = FRecip(input_aspect_ratio[i])
    /\ (flip /\ input_aspect_ratio
                  = << F32(MantLo, 2 - MantBits),
                       F32(3 * Pow2(MantBits - 2), 2 - MantBits) >>)
       => aspect_ratios
            = << F32(MantLo, 1 - MantBits), F32(MantLo, 2 - MantBits),
                 F32(MantLo, 0 - MantBits),
                 F32(3 * Pow2(MantBits - 2), 2 - MantBits),
                 F32(11184811, 0 - 1 - MantBits) >>

\* with flip, 1 + 9 ulp is kept and 1 - 17 * 2^-24 is then skipped, being
\* within 1e-6 of the reciprocal appended for 1 + 9 ulp
C3_Witness ==
  /\ pc = "steps" /\ flip
  /\ input_aspect_ratio
       = << F32(MantLo + 9, 1 - MantBits), F32(MantHi - 17, 0 - MantBits) >>
  /\ Len(aspect_ratios) = 3
  /\ Kept(1) /\ ~Kept(2)
(***************************************************************************)
(* C5. (step_width, step_height) is (step_w, step_h) exactly when both are *)
(* non-zero; if either is 0 both are img / layer, divided without          *)
(* truncation to an integer (here: to the resolution of the fixed point),  *)
(* so a non-zero step_w or step_h is ignored when the other is 0.          *)
(***************************************************************************)
\* q is n / d rounded down to a multiple of 2^-FracBits
IsQuotient(q, n, d) == q * d <= n * One /\ n * One < (q + 1) * d

C5_StepResolution ==
  pc \notin {"expand", "steps"} =>
    IF step_w # 0 /\ step_h # 0
    THEN step_width = step_w /\ step_height = step_h
    ELSE /\ IsQuotient(step_width, img_width, layer_width)
         /\ IsQuotient(step_height, img_height, layer_height)

\* step_w is given, step_h is 0, and 301 / 2 is not an integer
C5_Witness ==
  /\ pc = "done" /\ step_w # 0 /\ step_h = 0
  /\ img_width = 301 /\ layer_width = 2
  /\ step_width # step_w /\ 2 * step_width = 301 * One

(***************************************************************************)
(* C7. When Compute returns, Variances has layer_height * layer_width *    *)
(* num_priors_per_cell rows and every row is the variances attribute,      *)
(* entry by entry, whatever the other attributes are and whether or not    *)
(* the boxes were clipped.                                                 *)
(***************************************************************************)
C7_Variances ==
  pc = "done" =>
    /\ Len(e_vars) = layer_height * layer_width * PriorsPerCell
    /\ \A i \in 1..Len(e_vars) :
         /\ Len(e_vars[i]) = Len(variances)
         /\ \A j \in 1..Len(variances) : e_vars[i][j] = variances[j]

\* a clipped call whose variances lie outside [0, 1]
C7_Witness ==
  /\ pc = "done" /\ clip /\ Len(e_vars) >= 2
  /\ \E j \in 1..Len(variances) : variances[j] < 0 \/ variances[j] > One
  /\ \E k \in DOMAIN boxes : boxes[k] # generated[k]
(***************************************************************************)
(* C4. Every box stored for cell (h, w) is                                 *)
(*   ((center_x - width/2)/img_width, (center_y - height/2)/img_height,    *)
(*    (center_x + width/2)/img_width, (center_y + height/2)/img_height)    *)
(* with center_x = (w + offset) * step_width, center_y = (h + offset) *    *)
(* step_height, where width = height = min_sizes[s] for the ratio-1 box,   *)
(* width = height = sqrt(min_sizes[s] * max_sizes[s]) for the max-size     *)
(* variant, for all positive int sizes, and width * height =               *)
(* min_sizes[s]^2, width / height = r for a non-unit ratio r; a 1x1 layer  *)
(* over a 300x300 image with min_sizes = [30], offset 0.5 and steps 0      *)
(* gives [0.45, 0.45, 0.55, 0.55]. Equalities between reals are read to    *)
(* the resolution of the fixed point.                                      *)
(***************************************************************************)
\* (c + sign * b / 2) / img, a NaN side giving a NaN
Formula(c, b, sign, img) ==
  IF b.t = "num" THEN Num((2 * c + sign * b.v) \div (2 * img)) ELSE b

C4_Coordinates ==
  Aligned =>
    \A i \in 1..Len(writes) :
      LET x  == writes[i]
          cx == MulFx(x.w * One + offset, step_width)
          cy == MulFx(x.h * One + offset, step_height)
      IN  /\ x.box = << Formula(cx, x.bw, 0 - 1, img_width),
                        Formula(cy, x.bh, 0 - 1, img_height),
                        Formula(cx, x.bw, 1, img_width),
                        Formula(cy, x.bh, 1, img_height) >>
          /\ x.kind = "min" =>
               x.bw = Num(min_sizes[x.s] * One)
                 /\ x.bh = Num(min_sizes[x.s] * One)

\* the side of the max-size variant is the square root of the product
C4_MaxVariantSide ==
  Aligned =>
    \A i \in 1..Len(writes) :
      LET x == writes[i]
      IN  x.kind = "max" =>
            /\ x.bw = x.bh
            /\ x.bw.t = "num"
            /\ ~Overflows(min_sizes[x.s], max_sizes[x.s])
            /\ x.bw.v = SqrtScaled(min_sizes[x.s] * max_sizes[x.s], FracBits)

\* r * 4^FracBits for a binary32 r, rounded down
RatioScaled(ar) ==
  LET k == ar.e + 2 * FracBits
  IN  IF k >= 0 THEN ar.m * Pow2(k) ELSE ar.m \div Pow2(0 - k)

\* with u = width / min_size and v = height / min_size (in fixed point):
\* u^2 = r and u * v = 1, hence width * height = min_size^2 and
\* width / height = r
C4_RatioShape ==
  Aligned =>
    \A i \in 1..Len(writes) :
      LET x == writes[i]
          u == x.bw.v \div min_sizes[x.s]
          v == x.bh.v \div min_sizes[x.s]
      IN  x.kind = "ar" =>
            /\ u * u <= RatioScaled(aspect_ratios[x.r])
            /\ RatioScaled(aspect_ratios[x.r]) < (u + 1) * (u + 1)
            /\ u * v <= One * One
            /\ One * One - 2 * u <= u * v

\* v is within 2^-FracBits of n / 100
IsHundredths(v, n) ==
  v.t = "num" /\ Abs(100 * v.v - n * One) <= 100

C4_Example ==
  ( /\ layer_width = 1 /\ layer_height = 1
    /\ img_width = 300 /\ img_height = 300
    /\ min_sizes = <<30>> /\ max_sizes = <<>> /\ input_aspect_ratio = <<>>
    /\ step_w = 0 /\ step_h = 0 /\ 2 * offset = One
    /\ Generated )
  => /\ Len(writes) = 1
     /\ IsHundredths(generated[0][1], 45) /\ IsHundredths(generated[0][2], 45)
     /\ IsHundredths(generated[0][3], 55) /\ IsHundredths(generated[0][4], 55)

C4_BoxGeometry ==
  C4_Coordinates /\ C4_MaxVariantSide /\ C4_RatioShape /\ C4_Example

(***************************************************************************)
(* C6. With clip, every coordinate the generator stored ends as            *)
(* min(max(v, 0), 1) of the stored value v, lies in [0, 1], and is left    *)
(* unchanged by clamping again; without clip every coordinate is the       *)
(* stored value.                                                           *)
(***************************************************************************)
Clamp(v) ==
  IF v.t = "num"
  THEN Num(IF v.v < 0 THEN 0 ELSE IF v.v > One THEN One ELSE v.v)
  ELSE v

\* the coordinates the generator stored
StoredCoords ==
  {kc \in (DOMAIN generated) \X (1..4) : generated[kc[1]][kc[2]].t # "uninit"}

C6_ClampApplied ==
  (pc \in {"vars", "done"} /\ Aligned) =>
    \A kc \in StoredCoords :
      LET v   == generated[kc[1]][kc[2]]
          out == boxes[kc[1]][kc[2]]
      IN  IF clip THEN out = Clamp(v) /\ Clamp(out) = out ELSE out = v

C6_InUnitRange ==
  (pc \in {"vars", "done"} /\ clip /\ Aligned) =>
    \A kc \in StoredCoords :
      LET out == boxes[kc[1]][kc[2]]
      IN  out.t = "num" /\ 0 <= out.v /\ out.v <= One

C6_Clip == C6_ClampApplied /\ C6_InUnitRange

(***************************************************************************)
(* C8. No (h, w, prior index) is stored to twice during generation; with   *)
(* max_sizes empty or aligned no two stores reach the same element of the  *)
(* buffer, and whatever the order in which the cell bodies run, generation *)
(* leaves the buffer that the h-major, w-minor loop leaves.                *)
(***************************************************************************)
RECURSIVE SequentialFrom(_, _)
SequentialFrom(buf, k) ==
  IF k >= layer_height * layer_width THEN buf
  ELSE SequentialFrom(
         StoreAll(buf, CellWrites(k \div layer_width, k % layer_width).ws, 1),
         k + 1)

SequentialBoxes ==
  SequentialFrom([k \in DOMAIN boxes |-> <<Uninit, Uninit, Uninit, Uninit>>],
                 0)

C8_CellsIndependent ==
  /\ \A i, j \in 1..Len(writes) :
       i < j =>
         /\ <<writes[i].h, writes[i].w, writes[i].idx>>
              # <<writes[j].h, writes[j].w, writes[j].idx>>
         /\ Aligned =>
              Slot(writes[i].h, writes[i].w, writes[i].idx)
                # Slot(writes[j].h, writes[j].w, writes[j].idx)
  /\ (Aligned /\ pc = "clip") => generated = SequentialBoxes

\* two cells, the second one of the sequential order run first
C8_Witness ==
  /\ pc = "clip" /\ Aligned /\ Len(max_sizes) > 0
  /\ layer_height * layer_width = 2
  /\ Len(writes) = 2 * PriorsPerCell
  /\ writes[1].h + writes[1].w = 1
  /\ writes[Len(writes)].h + writes[Len(writes)].w = 0

(***************************************************************************)
(* C9. Two entries of the expanded list can lie within 1e-6 of each other, *)
(* and only because the later one is a reciprocal appended without a       *)
(* duplicate test; the generator then stores a box for each of the two,    *)
(* for every min-size of every cell, and the two boxes have the same       *)
(* width and height up to the rounding of the square root.                 *)
(***************************************************************************)
SameSide(a, b) ==
  /\ a.t = "num" /\ b.t = "num"
  /\ Abs(a.v - b.v) <= (IF a.v > b.v THEN a.v ELSE b.v) \div (One \div 4)

C9_DuplicateRatios ==
  pc # "expand" =>
    \A i, j \in 1..Len(aspect_ratios) :
      (i < j /\ FNear(aspect_ratios[i], aspect_ratios[j])) =>
        /\ flip /\ j > 1 /\ j % 2 = 1
        /\ (~NearOne(aspect_ratios[i]) /\ ~NearOne(aspect_ratios[j])) =>
             \A c \in cells_done, s \in 1..Len(min_sizes) :
               \E a, b \in 1..Len(writes) :
                 /\ writes[a].h = c[1] /\ writes[a].w = c[2]
                 /\ writes[b].h = c[1] /\ writes[b].w = c[2]
                 /\ writes[a].kind = "ar" /\ writes[b].kind = "ar"
                 /\ writes[a].s = s /\ writes[b].s = s
                 /\ writes[a].r = i /\ writes[b].r = j
                 /\ writes[a].idx # writes[b].idx
                 /\ SameSide(writes[a].bw, writes[b].bw)
                 /\ SameSide(writes[a].bh, writes[b].bh)

\* 2 and 2 + 9 ulp are both kept; their reciprocals are within 1e-6 of each
\* other, and one cell holds the same box twice for one min-size
C9_Witness ==
  /\ pc = "done"
  /\ \E i, j \in 1..Len(aspect_ratios) :
        i < j /\ FNear(aspect_ratios[i], aspect_ratios[j])
  /\ \E a, b \in 1..Len(writes) :
        /\ a # b
        /\ writes[a].h = writes[b].h /\ writes[a].w = writes[b].w
        /\ writes[a].s = writes[b].s
        /\ writes[a].kind = "ar" /\ writes[b].kind = "ar"
        /\ writes[a].box = writes[b].box
        /\ boxes[Slot(writes[a].h, writes[a].w, writes[a].idx)]
             = boxes[Slot(writes[b].h, writes[b].w, writes[b].idx)]

(***************************************************************************)
(* C10. With max_sizes empty or aligned, every store e_boxes(h, w, idx, c) *)
(* has 0 <= idx < num_priors, 0 <= h < layer_height, 0 <= w < layer_width  *)
(* and 0 <= c < 4 and lies inside the buffer, and every read max_sizes[s]  *)
(* has s < len(max_sizes). With max_sizes non-empty and shorter than       *)
(* min_sizes, the first cell already reads behind max_sizes and stores at  *)
(* an idx >= num_priors.                                                   *)
(***************************************************************************)
C10_InBounds ==
  /\ Aligned =>
       /\ \A i \in 1..Len(writes) :
            LET x == writes[i]
            IN  /\ 0 <= x.idx /\ x.idx < PriorsPerCell
                /\ x.idx < num_priors
                /\ 0 <= x.h /\ x.h < layer_height
                /\ 0 <= x.w /\ x.w < layer_width
                /\ DOMAIN x.box = 1..4
                /\ x.kind = "max" => x.s <= Len(max_sizes)
                /\ Slot(x.h, x.w, x.idx) \in DOMAIN boxes
       /\ ~oob_read /\ ~heap_overrun
  /\ (0 < Len(max_sizes) /\ Len(max_sizes) < Len(min_sizes)
        /\ cells_done # {}) =>
       /\ oob_read
       /\ \E i \in 1..Len(writes) : writes[i].idx >= num_priors

\* an aligned call that stores to the last prior index of the last cell
C10_Witness ==
  /\ pc = "done" /\ Aligned /\ Len(max_sizes) = 2
  /\ \E i \in 1..Len(writes) :
        /\ writes[i].idx = num_priors - 1
        /\ Slot(writes[i].h, writes[i].w, writes[i].idx)
             = layer_height * layer_width * num_priors - 1

\* a store behind the end of the buffer and a read behind max_sizes happen
C10_OutOfRange == oob_read /\ heap_overrun
====
